---- MODULE Spec2Model ----
(***************************************************************************)
(* A model of the research pipeline of OpenDossier (src/src/App.vue): the  *)
(* submit handlers, resetState, the evidence gathering of                  *)
(* handleInitialSubmit and the stream demultiplexer of streamAiResponse.   *)
(*                                                                         *)
(* Texts are sequences of one-character strings, so that the scanner and   *)
(* JSON.parse work on the characters the code works on.  A fixed piece of  *)
(* text the code never looks into (an error message, a prompt header) is   *)
(* one element of such a sequence.                                         *)
(***************************************************************************)
EXTENDS Integers, Sequences, FiniteSets, TLC

(***************************************************************************)
(* Characters and JSON values                                              *)
(***************************************************************************)
LB == "{"
RB == "}"
QT == "\""
BS == "\\"

\* The kinds of value JSON.parse builds from the characters the streams of
\* this model are made of (no digit, no whitespace, no literal name).
StrVal(s) == [t |-> "str", s |-> s, m |-> <<>>, a |-> <<>>]
ObjVal(m) == [t |-> "obj", s |-> <<>>, m |-> m, a |-> <<>>]
ArrVal(a) == [t |-> "arr", s |-> <<>>, m |-> <<>>, a |-> a]
Undefined == [t |-> "undefined", s |-> <<>>, m |-> <<>>, a |-> <<>>]

Fail == [ok |-> FALSE, pos |-> 0, val |-> Undefined]
Ok(pos, val) == [ok |-> TRUE, pos |-> pos, val |-> val]

\* The character an escape sequence \c stands for inside a JSON string;
\* "" when \c is no escape of JSON.
Unescape(c) ==
  CASE c = QT -> QT
    [] c = BS -> BS
    [] c = "/" -> "/"
    [] c = "n" -> "\n"
    [] c = "t" -> "\t"
    [] c = "r" -> "\r"
    [] c = "f" -> "\f"
    [] OTHER -> ""

RECURSIVE ParseChars(_, _, _)
\* The characters of a JSON string from position i (after the opening
\* quote) to its closing quote: acc is what was decoded so far.
ParseChars(b, i, acc) ==
  IF i > Len(b) THEN Fail
  ELSE IF b[i] = QT THEN Ok(i + 1, StrVal(acc))
  ELSE IF b[i] = BS THEN
    IF i + 1 > Len(b) \/ Unescape(b[i + 1]) = "" THEN Fail
    ELSE ParseChars(b, i + 2, Append(acc, Unescape(b[i + 1])))
  ELSE ParseChars(b, i + 1, Append(acc, b[i]))

ParseString(b, i) ==
  IF i <= Len(b) /\ b[i] = QT THEN ParseChars(b, i + 1, <<>>) ELSE Fail

RECURSIVE ParseValue(_, _), ParseMembers(_, _, _), ParseElements(_, _, _)
\* One JSON value starting at position i of b.
ParseValue(b, i) ==
  IF i > Len(b) THEN Fail
  ELSE IF b[i] = QT THEN ParseString(b, i)
  ELSE IF b[i] = LB THEN
    IF i + 1 <= Len(b) /\ b[i + 1] = RB THEN Ok(i + 2, ObjVal(<<>>))
    ELSE ParseMembers(b, i + 1, <<>>)
  ELSE IF b[i] = "[" THEN
    IF i + 1 <= Len(b) /\ b[i + 1] = "]" THEN Ok(i + 2, ArrVal(<<>>))
    ELSE ParseElements(b, i + 1, <<>>)
  ELSE Fail

\* The members "key":value,... of an object, up to its closing brace.
ParseMembers(b, i, acc) ==
  LET k == ParseString(b, i) IN
  IF ~k.ok \/ k.pos > Len(b) \/ b[k.pos] # ":" THEN Fail
  ELSE
    LET v == ParseValue(b, k.pos + 1) IN
    IF ~v.ok \/ v.pos > Len(b) THEN Fail
    ELSE
      LET m == Append(acc, [k |-> k.val.s, v |-> v.val]) IN
      IF b[v.pos] = RB THEN Ok(v.pos + 1, ObjVal(m))
      ELSE IF b[v.pos] = "," THEN ParseMembers(b, v.pos + 1, m)
      ELSE Fail

\* The elements value,... of an array, up to its closing bracket.
ParseElements(b, i, acc) ==
  LET v == ParseValue(b, i) IN
  IF ~v.ok \/ v.pos > Len(b) THEN Fail
  ELSE
    LET a == Append(acc, v.val) IN
    IF b[v.pos] = "]" THEN Ok(v.pos + 1, ArrVal(a))
    ELSE IF b[v.pos] = "," THEN ParseElements(b, v.pos + 1, a)
    ELSE Fail

\* JSON.parse(jsonStr): the value, or a SyntaxError (ok = FALSE) when the
\* text is not exactly one JSON value.
JsonParse(jsonStr) ==
  LET r == ParseValue(jsonStr, 1) IN
  IF r.ok /\ r.pos = Len(jsonStr) + 1 THEN r ELSE Fail

RECURSIVE Lookup(_, _, _)
\* The value of property key among the first n members (the last wins).
Lookup(m, key, n) ==
  IF n = 0 THEN Undefined
  ELSE IF m[n].k = key THEN m[n].v
  ELSE Lookup(m, key, n - 1)

\* v?.key
Prop(v, key) == IF v.t = "obj" THEN Lookup(v.m, key, Len(v.m)) ELSE Undefined

\* v?.[0]
First(v) ==
  CASE v.t = "arr" /\ Len(v.a) > 0 -> v.a[1]
    [] v.t = "str" /\ Len(v.s) > 0 -> StrVal(<<v.s[1]>>)
    [] OTHER -> Undefined

(***************************************************************************)
(* The streaming service's side: the texts it can send                     *)
(***************************************************************************)
KChoices == <<"c", "h", "o", "i", "c", "e", "s">>
KDelta == <<"d", "e", "l", "t", "a">>
KContent == <<"c", "o", "n", "t", "e", "n", "t">>
KFinishReason == <<"f", "i", "n", "i", "s", "h", "_", "r", "e", "a", "s", "o", "n">>
KStop == <<"s", "t", "o", "p">>

Quoted(s) == <<QT>> \o s \o <<QT>>

RECURSIVE EncodeString(_)
\* The characters of a string inside a JSON text (what JSON.stringify
\* writes between the quotes): a quote and a backslash are escaped.
EncodeString(s) ==
  IF s = <<>> THEN <<>>
  ELSE (IF Head(s) \in {QT, BS} THEN <<BS, Head(s)>> ELSE <<Head(s)>>)
       \o EncodeString(Tail(s))

\* A logical object of the stream: a chunk object with a content delta
\* ("delta"), one whose delta has no content ("nodelta"), or a fragment that
\* is brace-balanced and is no JSON ("bad").
DeltaObj(content, stop) == [kind |-> "delta", content |-> content, stop |-> stop]
NoDeltaObj(stop) == [kind |-> "nodelta", content |-> <<>>, stop |-> stop]
BadObj == [kind |-> "bad", content |-> <<>>, stop |-> FALSE]

\* {"choices":[{"delta":{"content":"..."},"finish_reason":"stop"}]}
ObjectText(o) ==
  IF o.kind = "bad" THEN <<LB, QT, "a", QT, RB>>
  ELSE <<LB>> \o Quoted(KChoices) \o <<":", "[", LB>> \o Quoted(KDelta) \o <<":", LB>>
       \o (IF o.kind = "delta"
           THEN Quoted(KContent) \o <<":">> \o Quoted(EncodeString(o.content))
           ELSE <<>>)
       \o <<RB>>
       \o (IF o.stop
           THEN <<",">> \o Quoted(KFinishReason) \o <<":">> \o Quoted(KStop)
           ELSE <<>>)
       \o <<RB, "]", RB>>

RECURSIVE StreamText(_)
\* The objects written back to back, with no delimiter.
StreamText(objs) ==
  IF objs = <<>> THEN <<>> ELSE ObjectText(Head(objs)) \o StreamText(Tail(objs))

(***************************************************************************)
(* The stream demultiplexer (streamAiResponse, lines 225-268)              *)
(***************************************************************************)
\* Line 234: the character at i (1-based) toggles inString.
TogglesString(buffer, i) ==
  buffer[i] = QT /\ (i = 1 \/ buffer[i - 1] # BS)

\* The locals of the for loop of lines 232-247; objectEndIndex counts the
\* characters of the object found, and is -1 while none is.
ScanState(openBraces, inString, objectEndIndex) ==
  [openBraces |-> openBraces, inString |-> inString,
   objectEndIndex |-> objectEndIndex]

\* One turn of the for loop, at the character i (1-based).  After the break
\* of line 243 no turn runs.
ScanStep(buffer, i, st) ==
  IF st.objectEndIndex # -1 THEN st
  ELSE
    LET inStr == IF TogglesString(buffer, i) THEN ~st.inString ELSE st.inString IN
    IF inStr THEN ScanState(st.openBraces, inStr, -1)
    ELSE IF buffer[i] = LB THEN ScanState(st.openBraces + 1, inStr, -1)
    ELSE IF buffer[i] = RB THEN
      ScanState(st.openBraces - 1, inStr, IF st.openBraces - 1 = 0 THEN i ELSE -1)
    ELSE ScanState(st.openBraces, inStr, -1)

RECURSIVE ScanRange(_, _, _, _)
\* The turns lo..hi of the for loop, in order, from the locals st (the range
\* is halved only to keep the evaluation shallow).
ScanRange(buffer, lo, hi, st) ==
  IF lo > hi THEN st
  ELSE IF lo = hi THEN ScanStep(buffer, lo, st)
  ELSE LET mid == (lo + hi) \div 2
           left == ScanRange(buffer, lo, mid, st)
       IN IF left.objectEndIndex # -1 THEN left
          ELSE ScanRange(buffer, mid + 1, hi, left)

\* Lines 226-247: objectEndIndex for the buffer.
FindObjectEnd(buffer) ==
  ScanRange(buffer, 1, Len(buffer), ScanState(0, FALSE, -1)).objectEndIndex

\* parsed.choices?.[0]?.delta?.content || ''  (line 257).  A content that is
\* no string does not occur in the streams of this model.
DeltaContent(parsed) ==
  LET c == Prop(Prop(First(Prop(parsed, KChoices)), KDelta), KContent) IN
  IF c.t = "str" THEN c.s ELSE <<>>

\* parsed.choices?.[0]?.finish_reason === 'stop'  (line 262)
IsStop(parsed) ==
  LET f == Prop(First(Prop(parsed, KChoices)), KFinishReason) IN
  f.t = "str" /\ f.s = KStop

\* The history of a drained stream: the deltas applied, the candidates
\* extracted and those discarded, the stop objects parsed, and the response
\* as it was when the first of them had been applied.
NoHistory ==
  [applied |-> <<>>, extracted |-> 0, discarded |-> 0, stops |-> 0,
   atStop |-> <<>>]

Discarded(h) ==
  [h EXCEPT !.extracted = @ + 1, !.discarded = @ + 1]

Parsed(h, parsed, content, resp, written) ==
  [h EXCEPT !.extracted = @ + 1,
            !.applied = IF written THEN Append(@, content) ELSE @,
            !.stops = IF IsStop(parsed) THEN @ + 1 ELSE @,
            !.atStop = IF IsStop(parsed) /\ h.stops = 0 THEN resp ELSE @]

\* What the inner loop hands back: the locals buffer and assistantResponse,
\* the message list, whether the function returned (line 263), and the
\* history.
DrainResult(buffer, resp, msgs, returned, h) ==
  [buffer |-> buffer, assistantResponse |-> resp, messages |-> msgs,
   returned |-> returned, hist |-> h]

\* A loop that reads on after a stop object.
ReturnsOnStopNever(parsed) == FALSE

\* Line 262: the function returns on a stop object.
ReturnsOnStop(parsed) == IsStop(parsed)

RECURSIVE Drain(_, _, _, _, _)
\* The while loop of lines 225-268 on the buffer: idx is lastMessageIndex
\* (1-based).  Writing messages.value[idx].content when the list has no such
\* message throws a TypeError inside the try of line 255, which the catch of
\* line 265 swallows: the lines after the write are skipped.
Drain(buffer, resp, msgs, idx, h) ==
  LET end == FindObjectEnd(buffer) IN
  IF Len(buffer) = 0 \/ end = -1
  THEN DrainResult(buffer, resp, msgs, FALSE, h)
  ELSE
    LET jsonStr == SubSeq(buffer, 1, end)
        rest == SubSeq(buffer, end + 1, Len(buffer))
        parsed == JsonParse(jsonStr)
        content == DeltaContent(parsed.val)
        resp2 == resp \o content
    IN
    IF ~parsed.ok
    THEN Drain(rest, resp, msgs, idx, Discarded(h))
    ELSE IF idx \notin 1..Len(msgs)
    THEN Drain(rest, resp2, msgs, idx, Parsed(h, parsed.val, content, resp2, FALSE))
    ELSE
      LET msgs2 == [msgs EXCEPT ![idx].content = resp2]
          h2 == Parsed(h, parsed.val, content, resp2, TRUE)
      IN
      IF ReturnsOnStop(parsed.val)
      THEN DrainResult(rest, resp2, msgs2, TRUE, h2)
      ELSE Drain(rest, resp2, msgs2, idx, h2)

(***************************************************************************)
(* Bounds of the model                                                     *)
(***************************************************************************)
\* Runs (accepted submissions) one behaviour holds.
MaxRuns == 2
\* Logical objects in one stream body.
MaxObjs == 2
\* Results a search response lists at most.
MaxResults == 6
\* Characters of a chunk that is not the whole rest of a body.
MaxChunk == 3

RunIds == 1..MaxRuns

(***************************************************************************)
(* State                                                                   *)
(***************************************************************************)
VARIABLES
  view,           \* 'initial' | 'chat'
  initialQuery,   \* v-model of the first form
  followUpQuery,  \* v-model of the chat form
  currentTopic,
  isLoading,
  loadingStatus,
  sources,        \* the list the sidebar shows
  messages,       \* the conversation: [role, content]
  run             \* the invocations of the submit handlers: position and locals

vars == <<view, initialQuery, followUpQuery, currentTopic, isLoading,
          loadingStatus, sources, messages, run>>

\* A handler invocation that was never made.  pc is the await the invocation
\* is suspended at; ended says how it finished.  The rest of the body not
\* yet read is rest.  History: whether resetState ran while the invocation
\* was in flight (abandoned) or at any time since it was made (cleared: the
\* list its messages were in is gone), the answers of the optimizer (optResp) and of
\* the search (searchResp), the sources list as it was when the prompt was
\* built (shownSources), the
\* objects of the body (objs), what was read of it (sent), the length of the
\* longest chunk read (widest), what the loop did with it (hist), the error caught
\* (errorText), and the requests issued (nOptimize, nSearch, nRead, nChat).
IdleRun ==
  [kind |-> "none", pc |-> "idle", ended |-> "", abandoned |-> FALSE,
   cleared |-> FALSE,
   query |-> <<>>, optResp |-> [kind |-> "none", content |-> <<>>],
   optimizedQuery |-> <<>>,
   searchResp |-> [kind |-> "none", n |-> 0],
   topSources |-> <<>>, reads |-> <<>>, combinedContext |-> <<>>,
   shownSources |-> <<>>,
   question |-> <<>>, history |-> <<>>,
   lastMessageIndex |-> 0, assistantResponse |-> <<>>, buffer |-> <<>>,
   rest |-> <<>>, sent |-> <<>>, widest |-> 0, objs |-> <<>>,
   hist |-> NoHistory, errorText |-> <<>>,
   nOptimize |-> 0, nSearch |-> 0, nRead |-> 0, nChat |-> 0]

Active(r) == run[r].pc \notin {"idle", "done"}

\* The next invocation takes the first record not yet used.
FreeRun(r) == run[r].pc = "idle" /\ \A q \in 1..(r - 1) : run[q].pc # "idle"

(***************************************************************************)
(* Texts of the program                                                    *)
(***************************************************************************)
IsSpace(c) == c \in {" ", "\n", "\t"}

RECURSIVE TrimStart(_)
TrimStart(s) ==
  IF s # <<>> /\ IsSpace(Head(s)) THEN TrimStart(Tail(s)) ELSE s

RECURSIVE TrimEnd(_)
TrimEnd(s) ==
  IF s # <<>> /\ IsSpace(s[Len(s)]) THEN TrimEnd(SubSeq(s, 1, Len(s) - 1)) ELSE s

\* String.prototype.trim
Trim(s) == TrimEnd(TrimStart(s))

StatusOptimizing == <<"Optimizing search query...">>
StatusSearching == <<"Searching for relevant sources...">>
StatusReading(n) == <<"Reading ", ToString(n), " sources...">>
StatusSynthesizing == <<"Synthesizing information...">>

NoSourcesMessage ==
  <<"Could not find any relevant sources. Try rephrasing your query.">>
NoReadableContentMessage ==
  <<"Found sources, but was unable to read their content. They may be inaccessible or in an unsupported format.">>
\* The message of the TypeError of a write to messages.value[i].content
\* when the list has no message i.
TypeErrorMessage == <<"Cannot read properties of undefined (reading 'content')">>

ResearchErrorMarker == "**An error occurred during research:**\n\n"
FollowUpErrorMarker == "**An error occurred:**\n\n"
StreamErrorMarker == "\n\n**An error occurred:**\n\n"

UserMessage(content) == [role |-> "user", content |-> content]
AssistantMessage(content) == [role |-> "assistant", content |-> content]

\* The message a handler's catch pushes (lines 166 and 185).
HandlerErrorMessage(kind, msg) ==
  AssistantMessage(<<IF kind = "initial" THEN ResearchErrorMarker
                     ELSE FollowUpErrorMarker>> \o msg)

\* The note the catch of streamAiResponse appends (line 271).
ErrorNote(msg) == <<StreamErrorMarker>> \o msg

(***************************************************************************)
(* The user at the forms                                                   *)
(***************************************************************************)
\* What the user can type into a form: nothing, blanks, a word, a word after
\* a blank, a quoted word.
Queries == {<<>>, <<" ">>, <<"q">>, <<" ", "q">>, <<QT, "q", QT>>}

\* The textarea of the first form (line 372), shown in the initial view.
TypeInitialQuery(q) ==
  /\ view = "initial"
  /\ initialQuery # q
  /\ initialQuery' = q
  /\ UNCHANGED <<view, followUpQuery, currentTopic, isLoading, loadingStatus,
                 sources, messages, run>>

\* The textarea of the chat form (line 453), disabled while loading.
TypeFollowUpQuery(q) ==
  /\ view = "chat"
  /\ ~isLoading
  /\ followUpQuery # q
  /\ followUpQuery' = q
  /\ UNCHANGED <<view, initialQuery, currentTopic, isLoading, loadingStatus,
                 sources, messages, run>>

\* resetState(false), the New Research button (line 339), always shown.  It
\* leaves the invocations in flight as they are.
ResetState ==
  /\ view' = "initial"
  /\ initialQuery' = <<>>
  /\ followUpQuery' = <<>>
  /\ currentTopic' = <<>>
  /\ sources' = <<>>
  /\ messages' = <<>>
  /\ isLoading' = FALSE
  /\ run' = [r \in RunIds |->
               IF Active(r)
               THEN [run[r] EXCEPT !.abandoned = TRUE, !.cleared = TRUE]
               ELSE IF run[r].pc = "done" THEN [run[r] EXCEPT !.cleared = TRUE]
               ELSE run[r]]
  /\ UNCHANGED loadingStatus

(***************************************************************************)
(* streamAiResponse: the call, up to its first await (lines 196-205)       *)
(***************************************************************************)
\* The message list after line 197.
WithPlaceholder(msgs) == Append(msgs, AssistantMessage(<<>>))

\* The locals of the invocation r once streamAiResponse awaits fetch.
StreamCalled(rec, msgs) ==
  [rec EXCEPT !.pc = "fetch",
              !.lastMessageIndex = Len(WithPlaceholder(msgs)),
              !.assistantResponse = <<>>,
              !.nChat = @ + 1]

(***************************************************************************)
(* handleInitialSubmit (lines 109-171) and optimizeQuery (lines 84-107)    *)
(***************************************************************************)
\* The guard of line 110.
InitialSubmitAccepted == Trim(initialQuery) # <<>> /\ ~isLoading

\* Lines 110-119 and 85-87, up to the await of the optimizer's request.  A
\* call the guard rejects changes nothing.  resetState(true) keeps the query.
HandleInitialSubmit(r) ==
  /\ view = "initial"
  /\ FreeRun(r)
  /\ InitialSubmitAccepted
  /\ followUpQuery' = <<>>
  /\ sources' = <<>>
  /\ isLoading' = TRUE
  /\ view' = "chat"
  /\ currentTopic' = initialQuery
  /\ messages' = <<UserMessage(initialQuery)>>
  /\ loadingStatus' = StatusOptimizing
  /\ run' = [run EXCEPT ![r] = [IdleRun EXCEPT !.kind = "initial",
                                               !.pc = "optimize",
                                               !.query = initialQuery,
                                               !.nOptimize = 1]]
  /\ UNCHANGED initialQuery

\* What the optimizer's request can come to: robustFetch throws ("reject"),
\* or returns a body without a first completion content ("nocontent"), or
\* one with the content given: empty, blank, a word, a quoted word, words
\* with blanks around and a quote inside, quotes alone.
OptimizerContents ==
  {<<>>, <<" ">>, <<"o">>, <<QT, "o", QT>>, <<" ", "o", "'", "p", " ">>, <<QT, QT>>}
OptimizerResponses ==
  {[kind |-> "reject", content |-> <<>>], [kind |-> "nocontent", content |-> <<>>]}
  \cup {[kind |-> "content", content |-> c] : c \in OptimizerContents}

IsQuoteChar(c) == c \in {QT, "'"}
\* optimized.replace(/["']/g, '')
StripQuotes(s) == SelectSeq(s, LAMBDA c : ~IsQuoteChar(c))

\* An optimizer that has no fallback.
OptimizedQueryNoFallback(query, resp) == StripQuotes(Trim(resp.content))

\* The value optimizeQuery returns (lines 97-106).
OptimizedQuery(query, resp) ==
  LET optimized == IF resp.kind = "content" THEN Trim(resp.content) ELSE <<>> IN
  IF resp.kind = "reject" \/ optimized = <<>> THEN query
  ELSE StripQuotes(optimized)

\* The optimizer's request settles; lines 121-125: the search is requested.
OptimizeSettles(r, resp) ==
  /\ run[r].pc = "optimize"
  /\ loadingStatus' = StatusSearching
  /\ run' = [run EXCEPT ![r].optResp = resp,
                        ![r].optimizedQuery = OptimizedQuery(run[r].query, resp),
                        ![r].pc = "search",
                        ![r].nSearch = @ + 1]
  /\ UNCHANGED <<view, initialQuery, followUpQuery, currentTopic, isLoading,
                 sources, messages>>

\* A catch that logs the error and shows nothing.
HandlerCatchesSilently(r, rec, msg, how) ==
  /\ isLoading' = FALSE
  /\ loadingStatus' = IF rec.kind = "initial" THEN <<>> ELSE loadingStatus
  /\ run' = [run EXCEPT ![r] = [rec EXCEPT !.pc = "done", !.ended = how,
                                            !.errorText = msg]]
  /\ UNCHANGED <<view, initialQuery, followUpQuery, currentTopic, sources, messages>>

\* The catch and finally of a handler (lines 165-170, 184-188) after e was
\* thrown in its try; rec is the invocation's record at the throw.
HandlerCatches(r, rec, msg, how) ==
  /\ messages' = Append(messages, HandlerErrorMessage(rec.kind, msg))
  /\ isLoading' = FALSE
  /\ loadingStatus' = IF rec.kind = "initial" THEN <<>> ELSE loadingStatus
  /\ run' = [run EXCEPT ![r] = [rec EXCEPT !.pc = "done", !.ended = how,
                                            !.errorText = msg]]
  /\ UNCHANGED <<view, initialQuery, followUpQuery, currentTopic, sources>>

\* The number of results the run keeps (line 130).
TopK == 5

Source(r, i) == [title |-> <<"title", r, i>>, url |-> <<"url", r, i>>]
\* A search response of n results for the search of invocation r.
SearchData(r, n) == [i \in 1..n |-> Source(r, i)]
\* data.slice(0, 5)
TopSources(data) == SubSeq(data, 1, IF Len(data) < TopK THEN Len(data) ELSE TopK)

\* What the search request can come to: robustFetch throws ("reject"), or
\* returns nothing with a data property ("missing"), a data that is no array
\* ("notarray"), or an array of n results ("data").
\* The failure is how the one request of robustFetch failed (line 61 is its
\* only fetch): fetch rejected with the message text ("network"), or the
\* response was not ok, with a status and the body text ("http").
NoFailure == [kind |-> "none", status |-> 0, text |-> <<>>]
FetchFailures ==
  {[kind |-> "network", status |-> 0, text |-> <<"Failed to fetch">>],
   [kind |-> "http", status |-> 500, text |-> <<"overloaded">>],
   [kind |-> "http", status |-> 404, text |-> <<>>]}

\* The error robustFetch throws (lines 62-65 and 71-76): the error of line 64
\* is thrown inside the try, so that the catch of line 71 wraps it as it
\* wraps the error of a rejected fetch.
RobustFetchError(failure) ==
  [name |-> "Error",
   message |->
     <<"Network error or failed request: ">>
     \o (IF failure.kind = "http"
         THEN <<"API request failed with status ", ToString(failure.status), ": ">>
              \o failure.text
         ELSE failure.text)]

RobustFetchMessage ==
  RobustFetchError([kind |-> "network", status |-> 0,
                    text |-> <<"Failed to fetch">>]).message
SearchResponses(maxN) ==
  {[kind |-> "reject", n |-> 0, failure |-> f] : f \in FetchFailures}
  \cup {[kind |-> k, n |-> 0, failure |-> NoFailure] : k \in {"missing", "notarray"}}
  \cup {[kind |-> "data", n |-> n, failure |-> NoFailure] : n \in 0..maxN}

\* A test that takes anything but a missing body for a list of results.
NoSourcesOnlyWhenMissing(resp) == resp.kind = "missing"

\* The condition of line 127.
NoSources(resp) == resp.kind \in {"missing", "notarray"} \/ resp.n = 0

\* The search settles (lines 123-138): the run fails, or the sources are
\* published and every read is requested.
SearchSettles(r, resp) ==
  /\ run[r].pc = "search"
  /\ IF resp.kind = "reject"
     THEN HandlerCatches(r, [run[r] EXCEPT !.searchResp = resp],
                         RobustFetchError(resp.failure).message, "searchfailed")
     ELSE IF NoSources(resp)
     THEN HandlerCatches(r, [run[r] EXCEPT !.searchResp = resp],
                         NoSourcesMessage, "nosources")
     ELSE LET topSources == TopSources(SearchData(r, resp.n)) IN
       /\ sources' = topSources
       /\ loadingStatus' = StatusReading(Len(topSources))
       /\ run' = [run EXCEPT ![r].searchResp = resp,
                             ![r].topSources = topSources,
                             ![r].reads = [i \in 1..Len(topSources) |-> "pending"],
                             ![r].nRead = @ + Len(topSources),
                             ![r].pc = "read"]
       /\ UNCHANGED <<view, initialQuery, followUpQuery, currentTopic, isLoading,
                      messages>>

\* What a read request can settle to: rejected; fulfilled with an empty
\* body ("falsy"), with a body that has no content ("nocontent"), with
\* { data: { content } } ("datacontent") or with { content } ("content").
ReadOutcomes == {"rejected", "falsy", "nocontent", "datacontent", "content"}

\* The text a page's reader returns for a source.
PageContent(source) == <<"content of", source.url>>

\* result.value?.data?.content || result.value?.content || ''  (line 145),
\* for a result that passed the test of line 144.
ReadContent(outcome, source) ==
  IF outcome \in {"datacontent", "content"} THEN PageContent(source) ELSE <<>>

\* A block labelled with the forEach index itself.
EvidenceBlockZeroBased(index, source, content) ==
  [ordinal |-> index - 1, title |-> source.title, url |-> source.url,
   content |-> content]

\* The block of line 148: index is the forEach index plus one.
EvidenceBlock(index, source, content) ==
  [ordinal |-> index, title |-> source.title, url |-> source.url,
   content |-> content]

\* A test that takes every fulfilled read with a body for a successful one.
ReadUsableWhenFulfilled(outcome, content) ==
  outcome \notin {"rejected", "falsy"}

\* The condition under which line 148 runs for a result.
ReadUsable(outcome, content) ==
  outcome \notin {"rejected", "falsy"} /\ content # <<>>

RECURSIVE GatherEvidence(_, _, _, _, _)
\* The forEach of lines 143-153 from index on: combinedContext, as the
\* sequence of its blocks, and successfulReads.
GatherEvidence(topSources, reads, index, combinedContext, successfulReads) ==
  IF index > Len(reads)
  THEN [combinedContext |-> combinedContext, successfulReads |-> successfulReads]
  ELSE
    LET content == ReadContent(reads[index], topSources[index]) IN
    IF ReadUsable(reads[index], content)
    THEN GatherEvidence(topSources, reads, index + 1,
                        Append(combinedContext,
                               EvidenceBlock(index, topSources[index], content)),
                        successfulReads + 1)
    ELSE GatherEvidence(topSources, reads, index + 1, combinedContext,
                        successfulReads)

\* Lines 141-163, once Promise.allSettled has resolved with reads.
AllSettled(r, reads) ==
  LET e == GatherEvidence(run[r].topSources, reads, 1, <<>>, 0) IN
  IF e.successfulReads = 0
  THEN HandlerCatches(r, [run[r] EXCEPT !.reads = reads,
                                       !.combinedContext = e.combinedContext],
                      NoReadableContentMessage, "noreadable")
  ELSE /\ loadingStatus' = StatusSynthesizing
       /\ messages' = WithPlaceholder(messages)
       /\ run' = [run EXCEPT ![r] =
                    StreamCalled([run[r] EXCEPT !.reads = reads,
                                                !.combinedContext = e.combinedContext,
                                                !.shownSources = sources,
                                                !.question = initialQuery],
                                 messages)]
       /\ UNCHANGED <<view, initialQuery, followUpQuery, currentTopic, isLoading,
                      sources>>

\* A gatherer that fails as soon as one read is rejected, as Promise.all
\* would.
ReadSettlesFailFast(r, i, outcome) ==
  /\ run[r].pc = "read"
  /\ i \in DOMAIN run[r].reads
  /\ run[r].reads[i] = "pending"
  /\ LET reads == [run[r].reads EXCEPT ![i] = outcome] IN
     IF outcome = "rejected"
     THEN HandlerCatches(r, [run[r] EXCEPT !.reads = reads],
                         RobustFetchMessage, "readfailed")
     ELSE IF \E j \in DOMAIN reads : reads[j] = "pending"
     THEN /\ run' = [run EXCEPT ![r].reads = reads]
          /\ UNCHANGED <<view, initialQuery, followUpQuery, currentTopic,
                         isLoading, loadingStatus, sources, messages>>
     ELSE AllSettled(r, reads)

\* One read settles (line 139).  The reads were all requested at line 134;
\* they settle in any order, and the handler goes on only when the last one
\* has.
ReadSettles(r, i, outcome) ==
  /\ run[r].pc = "read"
  /\ i \in DOMAIN run[r].reads
  /\ run[r].reads[i] = "pending"
  /\ LET reads == [run[r].reads EXCEPT ![i] = outcome] IN
     IF \E j \in DOMAIN reads : reads[j] = "pending"
     THEN /\ run' = [run EXCEPT ![r].reads = reads]
          /\ UNCHANGED <<view, initialQuery, followUpQuery, currentTopic,
                         isLoading, loadingStatus, sources, messages>>
     ELSE AllSettled(r, reads)

(***************************************************************************)
(* handleFollowUpSubmit (lines 173-189)                                    *)
(***************************************************************************)
\* The guard of line 174.
FollowUpSubmitAccepted == Trim(followUpQuery) # <<>> /\ ~isLoading

\* A follow-up that starts a new search: it clears the sources and requests
\* the search before the stream.
HandleFollowUpSubmitSearching(r) ==
  /\ view = "chat"
  /\ FreeRun(r)
  /\ FollowUpSubmitAccepted
  /\ followUpQuery' = <<>>
  /\ isLoading' = TRUE
  /\ sources' = <<>>
  /\ messages' = WithPlaceholder(Append(messages, UserMessage(followUpQuery)))
  /\ run' = [run EXCEPT ![r] =
               StreamCalled([IdleRun EXCEPT !.kind = "followup",
                                            !.query = followUpQuery,
                                            !.history = messages,
                                            !.nSearch = 1],
                            Append(messages, UserMessage(followUpQuery)))]
  /\ UNCHANGED <<view, initialQuery, currentTopic, loadingStatus>>

\* Lines 174-183 and 196-205, up to the await of the request.
HandleFollowUpSubmit(r) ==
  /\ view = "chat"
  /\ FreeRun(r)
  /\ FollowUpSubmitAccepted
  /\ followUpQuery' = <<>>
  /\ isLoading' = TRUE
  /\ messages' = WithPlaceholder(Append(messages, UserMessage(followUpQuery)))
  /\ run' = [run EXCEPT ![r] =
               StreamCalled([IdleRun EXCEPT !.kind = "followup",
                                            !.query = followUpQuery,
                                            !.history = messages],
                            Append(messages, UserMessage(followUpQuery)))]
  /\ UNCHANGED <<view, initialQuery, currentTopic, loadingStatus, sources>>

(***************************************************************************)
(* streamAiResponse after its first await (lines 201-275), with the return *)
(* to the handler that called it                                           *)
(***************************************************************************)
\* streamAiResponse returns normally: its finally (line 273), then the
\* finally of the handler (lines 168-169, 187).
StreamReturns(r, rec, msgs, how) ==
  /\ messages' = msgs
  /\ isLoading' = FALSE
  /\ loadingStatus' = IF rec.kind = "initial" THEN <<>> ELSE loadingStatus
  /\ run' = [run EXCEPT ![r] = [rec EXCEPT !.pc = "done", !.ended = how]]
  /\ UNCHANGED <<view, initialQuery, followUpQuery, currentTopic, sources>>

\* A catch that puts the note in the place of the partial answer.
StreamCatchesOverwriting(r, msg) ==
  IF run[r].lastMessageIndex \in 1..Len(messages)
  THEN StreamReturns(r, [run[r] EXCEPT !.errorText = msg],
                     [messages EXCEPT ![run[r].lastMessageIndex].content =
                                        ErrorNote(msg)],
                     "transport")
  ELSE HandlerCatches(r, run[r], TypeErrorMessage, "typeerror")

\* The catch of line 271 for an error e thrown in the try of line 200: the
\* note is appended to the message at lastMessageIndex.  When the list has no
\* such message the append throws a TypeError out of streamAiResponse, whose
\* finally runs, and the handler's catch and finally handle it.
StreamCatches(r, msg) ==
  IF run[r].lastMessageIndex \in 1..Len(messages)
  THEN StreamReturns(r, [run[r] EXCEPT !.errorText = msg],
                     [messages EXCEPT ![run[r].lastMessageIndex].content =
                                        @ \o ErrorNote(msg)],
                     "transport")
  ELSE HandlerCatches(r, run[r], TypeErrorMessage, "typeerror")

\* What the streaming request can come to: fetch rejects ("reject"), the
\* response is not ok or has no body ("notok"), or it has a body, which
\* carries the objects objs ("ok").
FetchResponses(bodies) ==
  {[kind |-> k, objs |-> <<>>] : k \in {"reject", "notok"}}
  \cup {[kind |-> "ok", objs |-> b] : b \in bodies}

FetchFailedMessage == <<"Failed to fetch">>

\* The await of line 201 settles.
FetchSettles(r, resp) ==
  /\ run[r].pc = "fetch"
  /\ CASE resp.kind = "reject" -> StreamCatches(r, FetchFailedMessage)
       [] resp.kind = "notok" ->
            /\ run' = [run EXCEPT ![r].pc = "errtext"]
            /\ UNCHANGED <<view, initialQuery, followUpQuery, currentTopic,
                           isLoading, loadingStatus, sources, messages>>
       [] resp.kind = "ok" ->
            /\ run' = [run EXCEPT ![r].pc = "stream",
                                  ![r].objs = resp.objs,
                                  ![r].rest = StreamText(resp.objs),
                                  ![r].buffer = <<>>]
            /\ UNCHANGED <<view, initialQuery, followUpQuery, currentTopic,
                           isLoading, loadingStatus, sources, messages>>

\* The body texts of a response that is not ok.
ErrorTexts == {<<>>, <<"overloaded">>}

\* The await of line 208 settles and line 209 throws.
ErrorTextSettles(r, errorText) ==
  /\ run[r].pc = "errtext"
  /\ StreamCatches(r, <<"AI model request failed: ">> \o errorText)

\* A loop that scans the new chunk alone.
AppendChunkForgetting(buffer, chunk) == chunk

\* Line 221.  The decoder is a streaming one: a chunk's characters are the
\* characters sent.
AppendChunk(buffer, chunk) == buffer \o chunk

\* The locals of the invocation after a chunk was drained into d.
AfterChunk(rec, k, d) ==
  [rec EXCEPT !.rest = SubSeq(rec.rest, k + 1, Len(rec.rest)),
              !.sent = @ \o SubSeq(rec.rest, 1, k),
              !.widest = IF k > @ THEN k ELSE @,
              !.buffer = d.buffer,
              !.assistantResponse = d.assistantResponse,
              !.hist = d.hist]

\* reader.read() gives the next k characters of the body (lines 217-268).
ReadChunk(r, k) ==
  /\ run[r].pc = "stream"
  /\ k \in 1..Len(run[r].rest)
  /\ \E d \in {Drain(AppendChunk(run[r].buffer, SubSeq(run[r].rest, 1, k)),
                     run[r].assistantResponse, messages, run[r].lastMessageIndex,
                     run[r].hist)} :
       \E rec \in {AfterChunk(run[r], k, d)} :
         IF d.returned
         THEN StreamReturns(r, rec, d.messages, "stop")
         ELSE /\ messages' = d.messages
              /\ run' = [run EXCEPT ![r] = rec]
              /\ UNCHANGED <<view, initialQuery, followUpQuery, currentTopic,
                             isLoading, loadingStatus, sources>>

\* An end of the body that is an error when the buffer holds a part of an
\* object.
ReadDoneStrict(r) ==
  /\ run[r].pc = "stream"
  /\ IF run[r].buffer = <<>>
     THEN StreamReturns(r, run[r], messages, "eof")
     ELSE StreamReturns(r, [run[r] EXCEPT !.errorText = <<"Unexpected end of stream">>],
                        [messages EXCEPT ![run[r].lastMessageIndex].content =
                           @ \o ErrorNote(<<"Unexpected end of stream">>)],
                        "eof")

\* reader.read() gives done (line 218): the body ended, after any number of
\* its characters.
ReadDone(r) ==
  /\ run[r].pc = "stream"
  /\ StreamReturns(r, run[r], messages, "eof")

ReadFailedMessage == <<"network error">>

\* reader.read() rejects.
ReadFails(r) ==
  /\ run[r].pc = "stream"
  /\ StreamCatches(r, ReadFailedMessage)

(***************************************************************************)
(* Specifications                                                          *)
(***************************************************************************)
\* Lines 10-23.
Init ==
  /\ view = "initial"
  /\ initialQuery = <<>>
  /\ followUpQuery = <<>>
  /\ currentTopic = <<>>
  /\ isLoading = FALSE
  /\ loadingStatus = <<>>
  /\ sources = <<>>
  /\ messages = <<>>
  /\ run = [r \in RunIds |-> IdleRun]

\* The stream bodies of at most n objects drawn from objs.
Bodies(objs, n) == UNION {[1..m -> objs] : m \in 0..n}

\* The objects of the streams the demultiplexer is checked on: deltas with a
\* plain character, with a brace and a quote, and with a backslash at the
\* end; a delta with the stop reason and a stop without a delta; a fragment
\* that is no JSON.
StreamContents == {<<"a">>, <<RB, QT>>, <<"b", BS>>}
StreamObjects ==
  {DeltaObj(c, FALSE) : c \in StreamContents}
  \cup {DeltaObj(<<"c">>, TRUE), NoDeltaObj(TRUE), BadObj}

\* The streams of the specifications that are about something else.
PlainBodies == {<<DeltaObj(<<"a">>, FALSE), DeltaObj(<<"b">>, TRUE)>>}

\* A cut of the body into few chunks: all that is left, or as many
\* characters as its first object has.
CoarseCuts(rec) ==
  IF rec.rest = <<>> THEN {}
  ELSE {Len(rec.rest), Len(ObjectText(rec.objs[1]))} \cap 1..Len(rec.rest)

\* Any cut: a chunk of at most MaxChunk characters, or all that is left.
FineCuts(rest) == {k \in 1..Len(rest) : k <= MaxChunk \/ k = Len(rest)}

\* The whole program: the forms, the New Research button, and every request
\* of every invocation settling in any order.
Next ==
  \/ TypeInitialQuery(<<"q">>)
  \/ TypeFollowUpQuery(<<"q">>)
  \/ ResetState
  \/ \E r \in RunIds : HandleInitialSubmit(r)
  \/ \E r \in RunIds : HandleFollowUpSubmit(r)
  \/ \E r \in RunIds : OptimizeSettles(r, [kind |-> "nocontent", content |-> <<>>])
  \/ \E r \in RunIds : \E n \in 0..1 : SearchSettles(r, [kind |-> "data", n |-> n])
  \/ \E r \in RunIds : \E o \in {"rejected", "content"} : ReadSettles(r, 1, o)
  \/ \E r \in RunIds : \E b \in PlainBodies : FetchSettles(r, [kind |-> "ok", objs |-> b])
  \/ \E r \in RunIds : \E k \in CoarseCuts(run[r]) : ReadChunk(r, k)
  \/ \E r \in RunIds : ReadDone(r)
  \/ \E r \in RunIds : ReadFails(r)

Spec == Init /\ [][Next]_vars

\* One initial submission, with every outcome of the search and of the
\* reads, up to the answer of the synthesis request.
NextGather ==
  \/ TypeInitialQuery(<<"q">>)
  \/ HandleInitialSubmit(1)
  \/ OptimizeSettles(1, [kind |-> "nocontent", content |-> <<>>])
  \/ \E resp \in SearchResponses(MaxResults) : SearchSettles(1, resp)
  \/ \E i \in 1..TopK : \E o \in ReadOutcomes : ReadSettles(1, i, o)
  \/ \E resp \in FetchResponses({}) : FetchSettles(1, resp)
  \/ ErrorTextSettles(1, <<"overloaded">>)

SpecGather == Init /\ [][NextGather]_vars

\* One initial submission, with every query and every answer of the
\* optimizer, and few outcomes of what follows.
NextOptimize ==
  \/ \E q \in Queries : TypeInitialQuery(q)
  \/ HandleInitialSubmit(1)
  \/ \E resp \in OptimizerResponses : OptimizeSettles(1, resp)
  \/ \E resp \in SearchResponses(1) : SearchSettles(1, resp)
  \/ \E o \in {"rejected", "content"} : ReadSettles(1, 1, o)
  \/ \E resp \in FetchResponses({}) : FetchSettles(1, resp)
  \/ ErrorTextSettles(1, <<"overloaded">>)

SpecOptimize == Init /\ [][NextOptimize]_vars

\* One session without New Research: the initial submission with every kind
\* of failure and of success, and the follow-up turns after it.
NextSession ==
  \/ TypeInitialQuery(<<"q">>)
  \/ TypeFollowUpQuery(<<"q">>)
  \/ \E r \in RunIds : HandleInitialSubmit(r)
  \/ \E r \in RunIds : HandleFollowUpSubmit(r)
  \/ \E r \in RunIds : OptimizeSettles(r, [kind |-> "nocontent", content |-> <<>>])
  \/ \E r \in RunIds : \E resp \in SearchResponses(1) : SearchSettles(r, resp)
  \/ \E r \in RunIds : \E o \in {"rejected", "content"} : ReadSettles(r, 1, o)
  \/ \E r \in RunIds : \E resp \in FetchResponses(PlainBodies) : FetchSettles(r, resp)
  \/ \E r \in RunIds : ErrorTextSettles(r, <<"overloaded">>)
  \/ \E r \in RunIds : \E k \in CoarseCuts(run[r]) : ReadChunk(r, k)
  \/ \E r \in RunIds : ReadDone(r)
  \/ \E r \in RunIds : ReadFails(r)

SpecSession == Init /\ [][NextSession]_vars

\* The bodies of three deltas and a stop object after them.
AnswerBodies ==
  {<<DeltaObj(d1, FALSE), DeltaObj(d2, FALSE), DeltaObj(d3, FALSE), NoDeltaObj(TRUE)>> :
     d1 \in StreamContents, d2 \in StreamContents, d3 \in StreamContents}

\* One initial submission in which every step succeeds: the optimizer gives
\* a query, the search five results, every read content (in any order), and
\* the stream three deltas and a stop object, cut into chunks in any way.
NextEndToEnd ==
  \/ TypeInitialQuery(<<"q">>)
  \/ HandleInitialSubmit(1)
  \/ OptimizeSettles(1, [kind |-> "content", content |-> <<"o">>])
  \/ SearchSettles(1, [kind |-> "data", n |-> TopK])
  \/ \E i \in 1..TopK : ReadSettles(1, i, "content")
  \/ \E b \in AnswerBodies : FetchSettles(1, [kind |-> "ok", objs |-> b])
  \/ \E k \in FineCuts(run[1].rest) : ReadChunk(1, k)
  \/ ReadDone(1)

SpecEndToEnd == Init /\ [][NextEndToEnd]_vars

\* One initial submission that reaches the synthesis, with every stream
\* body and every cut of it into chunks.
NextStream ==
  \/ TypeInitialQuery(<<"q">>)
  \/ HandleInitialSubmit(1)
  \/ OptimizeSettles(1, [kind |-> "nocontent", content |-> <<>>])
  \/ SearchSettles(1, [kind |-> "data", n |-> 1])
  \/ ReadSettles(1, 1, "content")
  \/ \E resp \in FetchResponses(Bodies(StreamObjects, MaxObjs)) : FetchSettles(1, resp)
  \/ \E t \in ErrorTexts : ErrorTextSettles(1, t)
  \/ \E k \in FineCuts(run[1].rest) : ReadChunk(1, k)
  \/ ReadDone(1)
  \/ ReadFails(1)

SpecStream == Init /\ [][NextStream]_vars

(***************************************************************************)
(* Properties                                                              *)
(***************************************************************************)
\* The invocations with a request outstanding or a stream not read to its end.
InFlight == {r \in RunIds : Active(r)}

RECURSIVE Flatten(_)
\* The concatenation of a sequence of texts.
Flatten(texts) ==
  IF texts = <<>> THEN <<>> ELSE Head(texts) \o Flatten(Tail(texts))

RECURSIVE ExpectedDeltas(_)
\* The deltas of the well-formed objects of a body, in the order sent, up to
\* and including the first object with the stop reason.
ExpectedDeltas(objs) ==
  IF objs = <<>> THEN <<>>
  ELSE IF Head(objs).kind = "bad" THEN ExpectedDeltas(Tail(objs))
  ELSE IF Head(objs).stop THEN <<Head(objs).content>>
  ELSE <<Head(objs).content>> \o ExpectedDeltas(Tail(objs))

\* The body was handled to its end: to a stop object, or to the end of all
\* its characters.
HandledToTheEnd(rec) ==
  rec.ended = "stop" \/ (rec.ended = "eof" /\ rec.rest = <<>>)

\* The message an invocation of streamAiResponse writes to.
OwnMessage(r) == messages[run[r].lastMessageIndex]

\* C1: at most one run is in flight, and isLoading is true for as long as a
\* run is in flight, so that a submission made meanwhile is rejected.
C1_AtMostOneRunInFlight ==
  /\ Cardinality(InFlight) <= 1
  /\ InFlight # {} => isLoading

\* The whole text drained as a single chunk into an empty message.
SingleChunk(text) ==
  Drain(AppendChunk(<<>>, text), <<>>, <<AssistantMessage(<<>>)>>, 1, NoHistory)

\* The text of the stream an invocation read: what it read when the body
\* ended there, and the whole body when the loop returned on a stop object.
StreamBody(rec) ==
  IF rec.ended = "eof" THEN rec.sent ELSE rec.sent \o rec.rest

\* C2: however the stream text was cut into chunks, the content accumulated
\* when streamAiResponse has returned is the content the whole text gives
\* when it arrives as a single chunk.
C2_ChunkSplitInvariance ==
  \A r \in RunIds :
    run[r].ended \in {"stop", "eof"} =>
      \E whole \in {SingleChunk(StreamBody(run[r]))} :
        /\ run[r].assistantResponse = whole.assistantResponse
        /\ OwnMessage(r).content = whole.assistantResponse
        /\ run[r].hist = whole.hist

\* A stream with an escaped brace and quote in a string was read one
\* character at a time to its stop object.
C2_Witness ==
  /\ run[1].ended = "stop"
  /\ run[1].widest = 1
  /\ run[1].hist.applied = <<<<RB, QT>>, <<"c">>>>

\* C3: for a body of well-formed objects back to back, every object is
\* extracted and the final content is the concatenation, in the order sent,
\* of the deltas of the objects up to and including the first stop object.
C3_EveryDeltaInOrder ==
  \A r \in RunIds :
    (/\ HandledToTheEnd(run[r])
     /\ \A i \in DOMAIN run[r].objs : run[r].objs[i].kind # "bad")
    => /\ run[r].hist.applied = ExpectedDeltas(run[r].objs)
       /\ OwnMessage(r).content = Flatten(ExpectedDeltas(run[r].objs))

\* C4: once an extracted object has the stop reason, its delta is applied
\* and streamAiResponse has returned successfully: nothing of the buffer or
\* of the stream after it is read or changes the message, and the message
\* has no error note.
C4_StopHalts ==
  \A r \in RunIds :
    run[r].hist.stops > 0 =>
      /\ run[r].pc = "done"
      /\ run[r].ended = "stop"
      /\ run[r].hist.stops = 1
      /\ run[r].hist.atStop = Flatten(run[r].hist.applied)
      /\ run[r].assistantResponse = run[r].hist.atStop
      /\ OwnMessage(r) = AssistantMessage(run[r].hist.atStop)
      /\ Len(messages) = run[r].lastMessageIndex
      /\ ~isLoading

\* The loop returned on a stop object with a complete object left in the
\* buffer.
C4_Witness ==
  /\ run[1].ended = "stop"
  /\ FindObjectEnd(run[1].buffer) # -1

\* C5: when the body ends before a stop object was seen, streamAiResponse
\* completes cleanly: the message holds the content accumulated so far and
\* no error note, no other message is added, and isLoading is released.
C5_EndOfStreamIsClean ==
  \A r \in RunIds :
    run[r].ended = "eof" =>
      /\ run[r].hist.stops = 0
      /\ run[r].assistantResponse = Flatten(run[r].hist.applied)
      /\ OwnMessage(r) = AssistantMessage(run[r].assistantResponse)
      /\ Len(messages) = run[r].lastMessageIndex
      /\ ~isLoading
      /\ loadingStatus = <<>>

\* The body ended after a delta was applied, with a part of an object in the
\* buffer.
C5_Witness ==
  /\ run[1].ended = "eof"
  /\ run[1].hist.applied # <<>>
  /\ run[1].buffer # <<>>
  /\ FindObjectEnd(run[1].buffer) = -1

\* C6: a candidate that fails JSON parsing is discarded and the stream goes
\* on: the deltas applied before it stay, and the deltas of the well-formed
\* objects sent after it are applied.
C6_DiscardKeepsTheRest ==
  \A r \in RunIds :
    (HandledToTheEnd(run[r]) /\ run[r].hist.discarded > 0)
    => /\ run[r].hist.applied = ExpectedDeltas(run[r].objs)
       /\ OwnMessage(r) = AssistantMessage(Flatten(ExpectedDeltas(run[r].objs)))

\* C7: a failure of the streaming request (fetch rejects, the response is
\* not ok or has no body, a read of the stream fails) appends the error note
\* to the message in progress: what the message held before is a prefix of
\* its content, and no other message is added.
C7_TransportFailureAppendsNote ==
  \A r \in RunIds :
    /\ run[r].pc \in {"fetch", "errtext", "stream"} =>
         OwnMessage(r) = AssistantMessage(Flatten(run[r].hist.applied))
    /\ run[r].ended = "transport" =>
         /\ OwnMessage(r) =
              AssistantMessage(Flatten(run[r].hist.applied)
                               \o ErrorNote(run[r].errorText))
         /\ Len(messages) = run[r].lastMessageIndex
         /\ ~isLoading

\* A read of the stream failed after a delta was applied.
C7_Witness ==
  /\ run[1].ended = "transport"
  /\ run[1].errorText = ReadFailedMessage
  /\ run[1].hist.applied # <<>>

\* The search answered with no list of results, or with an empty one.
SearchFoundNothing(rec) ==
  \/ rec.searchResp.kind \in {"missing", "notarray"}
  \/ rec.searchResp.kind = "data" /\ rec.searchResp.n = 0

\* C8: when the search response is missing, malformed or has an empty data
\* array, the initial run ends with the no-sources error, and no read and no
\* synthesis request is issued.
C8_NoSourcesEndsTheRun ==
  \A r \in RunIds :
    SearchFoundNothing(run[r]) =>
      /\ run[r].pc = "done"
      /\ run[r].ended = "nosources"
      /\ messages[Len(messages)] = HandlerErrorMessage("initial", NoSourcesMessage)
      /\ sources = <<>>
      /\ run[r].nRead = 0
      /\ run[r].nChat = 0
      /\ ~isLoading

\* The search answered with data that is no array.
C8_Witness ==
  /\ run[1].searchResp.kind = "notarray"
  /\ run[1].nSearch = 1
  /\ run[1].pc = "done"

\* Every read of a run with sources has settled, and none gave content.
NoReadGaveContent(rec) ==
  /\ rec.reads # <<>>
  /\ \A i \in DOMAIN rec.reads : rec.reads[i] \in {"rejected", "falsy", "nocontent"}

\* C9: when the search gave a source and every read failed or gave empty
\* content, the initial run ends with the no-readable-content error, whose
\* message is not that of the no-sources error, and the synthesis is never
\* requested.
C9_NoReadableContentEndsTheRun ==
  \A r \in RunIds :
    NoReadGaveContent(run[r]) =>
      /\ run[r].pc = "done"
      /\ run[r].ended = "noreadable"
      /\ messages[Len(messages)] =
           HandlerErrorMessage("initial", NoReadableContentMessage)
      /\ HandlerErrorMessage("initial", NoReadableContentMessage)
           # HandlerErrorMessage("initial", NoSourcesMessage)
      /\ run[r].nChat = 0
      /\ ~isLoading

\* Five sources, whose reads were rejected, empty or without content.
C9_Witness ==
  /\ Len(run[1].reads) = TopK
  /\ NoReadGaveContent(run[1])
  /\ run[1].reads[1] = "rejected"
  /\ run[1].reads[2] = "nocontent"
  /\ run[1].reads[3] = "falsy"

\* The reads that succeeded with content.
SuccessfulReads(rec) ==
  {i \in DOMAIN rec.reads : rec.reads[i] \in {"datacontent", "content"}}

\* C10: whichever reads fail or are empty, the combined evidence has exactly
\* one block for each read that succeeded with content, in ascending order
\* of the sources, each labelled with the 1-based ordinal its source has
\* among the search results and carrying that source's title, URL and text.
C10_OneBlockPerSuccessfulRead ==
  \A r \in RunIds :
    (run[r].reads # <<>> /\ \A i \in DOMAIN run[r].reads : run[r].reads[i] # "pending")
    => \E cc \in {run[r].combinedContext} :
         /\ {cc[j].ordinal : j \in DOMAIN cc} = SuccessfulReads(run[r])
         /\ Len(cc) = Cardinality(SuccessfulReads(run[r]))
         /\ \A j \in 1..(Len(cc) - 1) : cc[j].ordinal < cc[j + 1].ordinal
         /\ \A j \in DOMAIN cc :
              cc[j] = [ordinal |-> cc[j].ordinal,
                       title |-> Source(r, cc[j].ordinal).title,
                       url |-> Source(r, cc[j].ordinal).url,
                       content |-> PageContent(Source(r, cc[j].ordinal))]

\* Of five sources the reads 2 and 4 failed: the blocks are 1, 3 and 5.
C10_Witness ==
  /\ run[1].reads = <<"content", "rejected", "datacontent", "nocontent", "content">>
  /\ Len(run[1].combinedContext) = 3
  /\ run[1].combinedContext[1].ordinal = 1
  /\ run[1].combinedContext[2].ordinal = 3
  /\ run[1].combinedContext[3].ordinal = 5

\* A read of the run has not settled.
ReadPending(rec) == \E i \in DOMAIN rec.reads : rec.reads[i] = "pending"

\* C11: every read of a run is requested before one is awaited, and the run
\* goes on to assemble the evidence only when every read has settled: while
\* a read is pending the run waits, whatever the other reads came to, and
\* it is past the reads only with every read settled.
C11_SettleAllBarrier ==
  \A r \in RunIds :
    /\ Len(run[r].reads) = Len(run[r].topSources)
    /\ run[r].nRead = Len(run[r].topSources)
    /\ ReadPending(run[r]) =>
         /\ run[r].pc = "read"
         /\ run[r].ended = ""
         /\ run[r].combinedContext = <<>>
         /\ run[r].nChat = 0
         /\ messages = <<UserMessage(run[r].query)>>
         /\ isLoading
    /\ run[r].pc = "read" => ReadPending(run[r])
    /\ (run[r].nChat > 0 \/ run[r].ended = "noreadable") =>
         \A i \in DOMAIN run[r].reads : run[r].reads[i] \in ReadOutcomes

\* Of five reads the second was rejected and the fourth gave content while
\* the others are pending: the run waits.
C11_Witness ==
  /\ run[1].pc = "read"
  /\ run[1].reads = <<"pending", "rejected", "pending", "content", "pending">>

\* The optimizer's request failed, or gave no text, or a blank one.
OptimizerGaveNothing(resp) ==
  \/ resp.kind \in {"reject", "nocontent"}
  \/ resp.kind = "content" /\ Trim(resp.content) = <<>>

\* C12: when the optimizer's request fails or the text extracted from its
\* answer is empty, optimizeQuery returns the query it was given, unchanged,
\* and the run goes on to the search with it: no error is surfaced.
C12_OptimizerFallsBack ==
  \A r \in RunIds :
    OptimizerGaveNothing(run[r].optResp) =>
      /\ run[r].optimizedQuery = run[r].query
      /\ run[r].nSearch = 1
      /\ run[r].pc = "search" =>
           /\ messages = <<UserMessage(run[r].query)>>
           /\ isLoading
           /\ loadingStatus = StatusSearching

\* The optimizer's request was rejected for a quoted query: the search is
\* requested with the quoted query.
C12_Witness ==
  /\ run[1].optResp.kind = "reject"
  /\ run[1].pc = "search"
  /\ run[1].optimizedQuery = <<QT, "q", QT>>

\* The initial submission r has called streamAiResponse, which has not
\* returned.
Synthesizing(r) ==
  run[r].kind = "initial" /\ run[r].pc \in {"fetch", "errtext", "stream"}

\* C13: whenever a run is in its synthesizing phase, the sources list shown
\* to the user is not empty.
C13_SourcesShownWhileSynthesizing ==
  \A r \in RunIds : Synthesizing(r) => sources # <<>>

\* C14: the block numbered n of the synthesis prompt carries the title and
\* the URL of the n-th entry of the sources list shown to the user when the
\* prompt is sent.
C14_CitationsMatchShownSources ==
  \A r \in RunIds :
    (run[r].kind = "initial" /\ run[r].nChat > 0) =>
      \A j \in DOMAIN run[r].combinedContext :
        \E n \in {run[r].combinedContext[j].ordinal} :
          /\ n \in DOMAIN run[r].shownSources
          /\ run[r].shownSources[n].title = run[r].combinedContext[j].title
          /\ run[r].shownSources[n].url = run[r].combinedContext[j].url

\* The invocation r is inside streamAiResponse.
Streaming(r) == run[r].pc \in {"fetch", "errtext", "stream"}

\* The streams in flight whose lastMessageIndex is that of an assistant
\* message of the list: they can still write to it.
OpenWriters ==
  {r \in RunIds : /\ Streaming(r)
                  /\ run[r].lastMessageIndex \in DOMAIN messages
                  /\ OwnMessage(r).role = "assistant"}

\* C15: at most one assistant message is open: no two streams in flight
\* each hold an assistant message they can still write to.
C15_OneOpenAssistantMessage == Cardinality(OpenWriters) <= 1

\* C16: after resetState ran while a run was in flight, no later step of
\* that run changes the messages, the sources or the loading flag.
C16_AbandonedRunIsNotObserved ==
  [][\A r \in RunIds :
       (run[r].abandoned /\ run'[r] # run[r]) =>
         UNCHANGED <<messages, sources, isLoading>>]_vars

\* The text carries one of the error markers.
HasErrorMarker(content) ==
  \E i \in DOMAIN content :
    content[i] \in {ResearchErrorMarker, FollowUpErrorMarker, StreamErrorMarker}

\* C17: a failing run is surfaced as assistant content with an error marker.
\* A run the evidence gatherer aborted (the search failed, found nothing, or
\* nothing was readable) never called streamAiResponse: after the question
\* the history has the error message, one assistant message that is not
\* empty, and no placeholder.  A run whose stream failed has the marker and
\* the error in its own message.
C17_FailuresAreSurfaced ==
  \A r \in RunIds :
    /\ run[r].ended \in {"searchfailed", "nosources", "noreadable"} =>
         /\ run[r].nChat = 0
         /\ Len(messages) >= 2
         /\ SubSeq(messages, 1, 2) =
              <<UserMessage(run[r].query),
                AssistantMessage(<<ResearchErrorMarker>> \o run[r].errorText)>>
         /\ run[r].errorText # <<>>
         /\ (\A q \in RunIds : run[q].kind # "followup") => Len(messages) = 2
         /\ \A i \in DOMAIN messages :
              messages[i] = AssistantMessage(<<>>) =>
                \E q \in RunIds : run[q].kind = "followup" /\ run[q].lastMessageIndex = i
    /\ run[r].ended = "transport" =>
         /\ OwnMessage(r).role = "assistant"
         /\ HasErrorMarker(OwnMessage(r).content)
         /\ run[r].errorText # <<>>
    /\ run[r].ended \in {"", "stop", "eof", "searchfailed", "nosources",
                         "noreadable", "transport"}

\* The search was rejected: the history is the question and the error.
C17_Witness ==
  /\ run[1].ended = "searchfailed"
  /\ Len(messages) = 2
  /\ HasErrorMarker(messages[2].content)

\* C18: a follow-up turn requests no optimization, no search and no read,
\* and exactly one streaming chat completion; no step of it changes the
\* sources list or the current topic.
C18_FollowUpBypassesGatherer ==
  /\ [](\A r \in RunIds :
          run[r].kind = "followup" =>
            /\ run[r].nOptimize = 0
            /\ run[r].nSearch = 0
            /\ run[r].nRead = 0
            /\ run[r].nChat = 1
            /\ run[r].topSources = <<>>
            /\ run[r].combinedContext = <<>>)
  /\ [][\A r \in RunIds :
          (run'[r].kind = "followup" /\ run'[r] # run[r]) =>
            UNCHANGED <<sources, currentTopic>>]_vars

\* A follow-up turn was answered to its stop object, in a session with a
\* source and a topic.
C18_Witness ==
  /\ \E r \in RunIds : run[r].kind = "followup" /\ run[r].ended = "stop"
  /\ sources # <<>>
  /\ currentTopic = <<"q">>

\* Every step of the initial submission succeeded: the optimizer gave a
\* query, the search five sources, every read content, and the stream
\* delivered three deltas and a stop object after them, to its end.
EverythingSucceeded(rec) ==
  /\ rec.kind = "initial"
  /\ rec.optResp.kind = "content" /\ Trim(rec.optResp.content) # <<>>
  /\ Len(rec.topSources) = TopK
  /\ \A i \in DOMAIN rec.reads : rec.reads[i] \in {"datacontent", "content"}
  /\ Len(rec.objs) = 4
  /\ \A i \in 1..3 : rec.objs[i].kind = "delta" /\ ~rec.objs[i].stop
  /\ rec.objs[4].stop
  /\ HandledToTheEnd(rec)

\* C19: when every step succeeds and the stream delivers the deltas d1, d2
\* and d3 and then a stop object, the history is the question and the answer
\* d1 d2 d3, and the run ends in the chat view with the loading flag and the
\* loading status cleared.
C19_EndToEndSuccess ==
  \A r \in RunIds :
    EverythingSucceeded(run[r]) =>
      /\ messages =
           <<UserMessage(run[r].query),
             AssistantMessage(run[r].objs[1].content \o run[r].objs[2].content
                              \o run[r].objs[3].content)>>
      /\ view = "chat"
      /\ ~isLoading
      /\ loadingStatus = <<>>

\* What a caller can tell of an error without reading the free text of its
\* message: its class and the label its message begins with.
ErrorKind(error) == <<error.name, error.message[1]>>

\* The text is a part of the message.
Carries(message, text) ==
  \E i \in 0..(Len(message) - Len(text)) :
    SubSeq(message, i + 1, i + Len(text)) = text

\* C20: robustFetch makes one request and does not retry, and its failure
\* tells the two kinds of failure apart: a response that is not ok fails
\* with an error of the transport kind that carries the status and the body
\* text, a rejected fetch with an error of the network kind.
C20_FailureKindsDistinguished ==
  \A r \in RunIds :
    run[r].ended = "searchfailed" =>
      \E f \in {run[r].searchResp.failure} :
        /\ run[r].nSearch = 1
        /\ run[r].errorText = RobustFetchError(f).message
        /\ f.kind = "http" =>
             /\ Carries(run[r].errorText, <<ToString(f.status)>>)
             /\ Carries(run[r].errorText, f.text)
        /\ \A g \in FetchFailures :
             g.kind # f.kind =>
               ErrorKind(RobustFetchError(g)) # ErrorKind(RobustFetchError(f))

\* s is a prefix of t.
IsPrefix(s, t) == Len(s) <= Len(t) /\ SubSeq(t, 1, Len(s)) = s

\* The invocations whose assistant message is in the list shown: the
\* placeholder was pushed, and the list was not cleared since.
Writers == {r \in RunIds : run[r].lastMessageIndex # 0 /\ ~run[r].cleared}

\* C21: in every step, the content of the assistant message of an invocation
\* keeps its previous value as a prefix, and once the stream of the
\* invocation has completed or failed the content does not change, whatever
\* the other invocations, the New Research button and the network do.
C21_ContentGrowsThenFreezes ==
  [][\A r \in Writers :
       ~run'[r].cleared =>
         /\ run[r].lastMessageIndex \in DOMAIN messages
         /\ run[r].lastMessageIndex \in DOMAIN messages'
         /\ IsPrefix(OwnMessage(r).content,
                     messages'[run[r].lastMessageIndex].content)
         /\ run[r].pc = "done" =>
              messages'[run[r].lastMessageIndex] = OwnMessage(r)]_vars

\* C22: while an invocation is in flight the conversation is append-only: a
\* step removes no message, keeps every message in its place with its role
\* (and a user message with its content), and never empties the list; the
\* list is cleared only when no invocation is in flight.
C22_HistoryAppendOnlyDuringRun ==
  [][InFlight # {} =>
       /\ Len(messages') >= Len(messages)
       /\ \A i \in DOMAIN messages :
            /\ messages'[i].role = messages[i].role
            /\ messages[i].role = "user" => messages'[i] = messages[i]]_vars

\* The number of characters of the body up to the end of its object j.
EndOf(objs, j) == Len(StreamText(SubSeq(objs, 1, j)))

\* The objects of the body whose last character came with the chunk read
\* between the locals before and after, and those of them whose first
\* character came with it too.
CompletedBy(before, after) ==
  {j \in DOMAIN before.objs :
     /\ EndOf(before.objs, j) > Len(before.sent)
     /\ EndOf(before.objs, j) <= Len(after.sent)}
WhollyIn(before, after) ==
  {j \in CompletedBy(before, after) : EndOf(before.objs, j - 1) >= Len(before.sent)}

\* The deltas of the objects the chunk completed, in the order sent, up to
\* and including a stop object.
DeltasOf(before, after) ==
  IF CompletedBy(before, after) = {} THEN <<>>
  ELSE ExpectedDeltas(
         SubSeq(before.objs,
                CHOOSE j \in CompletedBy(before, after) :
                  \A k \in CompletedBy(before, after) : j <= k,
                CHOOSE j \in CompletedBy(before, after) :
                  \A k \in CompletedBy(before, after) : j >= k))

\* C23: when a chunk of a body of well-formed objects holds two or more
\* whole objects, the step that reads the chunk extracts all the objects it
\* completed and applies their deltas in the order sent (up to a stop
\* object), and when the stream goes on the buffer holds no complete object.
C23_AllObjectsOfAChunkInOnePass ==
  [][\A r \in RunIds :
       (/\ run[r].pc = "stream"
        /\ run'[r].sent # run[r].sent
        /\ \A i \in DOMAIN run[r].objs : run[r].objs[i].kind # "bad"
        /\ Cardinality(WhollyIn(run[r], run'[r])) >= 2)
       => /\ run'[r].hist.applied =
               run[r].hist.applied \o DeltasOf(run[r], run'[r])
          /\ messages'[run[r].lastMessageIndex].content =
               OwnMessage(r).content \o Flatten(DeltasOf(run[r], run'[r]))
          /\ run'[r].pc = "stream" => FindObjectEnd(run'[r].buffer) = -1]_vars

\* The chunk read between the locals before and after.
ChunkRead(before, after) ==
  SubSeq(after.sent, Len(before.sent) + 1, Len(after.sent))

\* The buffer, the last characters of what rec has read, holds no object of
\* the body from its first character to its last.
HoldsNoObject(buffer, rec) ==
  \A j \in DOMAIN rec.objs :
    ~(/\ EndOf(rec.objs, j) <= Len(rec.sent)
      /\ EndOf(rec.objs, j - 1) >= Len(rec.sent) - Len(buffer))

\* C24: when the buffer with the chunk just read appended holds no complete
\* object, the extraction loop leaves that buffer as it is, applies no delta
\* and leaves the messages as they are; the loop run again on the outcome
\* gives the outcome.
C24_NothingCompleteNothingDone ==
  [][\A r \in RunIds :
       (/\ run[r].pc = "stream"
        /\ run'[r].sent # run[r].sent
        /\ HoldsNoObject(AppendChunk(run[r].buffer, ChunkRead(run[r], run'[r])),
                         run'[r]))
       => /\ run'[r].pc = "stream"
          /\ run'[r].buffer =
               AppendChunk(run[r].buffer, ChunkRead(run[r], run'[r]))
          /\ run'[r].hist = run[r].hist
          /\ run'[r].assistantResponse = run[r].assistantResponse
          /\ messages' = messages
          /\ Drain(run'[r].buffer, run'[r].assistantResponse, messages',
                   run[r].lastMessageIndex, run'[r].hist)
             = DrainResult(run'[r].buffer, run'[r].assistantResponse, messages',
                           FALSE, run'[r].hist)]_vars

RECURSIVE DropLeadingQuotes(_)
DropLeadingQuotes(s) ==
  IF s # <<>> /\ IsQuoteChar(Head(s)) THEN DropLeadingQuotes(Tail(s)) ELSE s

RECURSIVE DropTrailingQuotes(_)
DropTrailingQuotes(s) ==
  IF s # <<>> /\ IsQuoteChar(s[Len(s)])
  THEN DropTrailingQuotes(SubSeq(s, 1, Len(s) - 1)) ELSE s

\* A text without the quote characters around it; those inside it stay.
WithoutSurroundingQuotes(s) == DropTrailingQuotes(DropLeadingQuotes(s))

\* The optimizer's request gave a text that is not blank.
OptimizerGaveText(resp) ==
  resp.kind = "content" /\ Trim(resp.content) # <<>>

\* C25: when the optimizer's request gives a text, optimizeQuery returns that
\* text, trimmed, without the quote characters around it: the quotes and
\* apostrophes inside the text are kept.
C25_OnlySurroundingQuotesTrimmed ==
  \A r \in RunIds :
    OptimizerGaveText(run[r].optResp) =>
      run[r].optimizedQuery =
        WithoutSurroundingQuotes(Trim(run[r].optResp.content))

\* C26: whatever the optimizer's request comes to, the query optimizeQuery
\* returns for an accepted (non-blank) user query, the one the search is
\* requested with, is not empty.
C26_OptimizedQueryNotEmpty ==
  \A r \in RunIds :
    (run[r].optResp.kind # "none" /\ Trim(run[r].query) # <<>>) =>
      run[r].optimizedQuery # <<>>

====
